---- MODULE Spec2Model ----
(***************************************************************************)
(* Model of the GitHub scraper batch job (src/app.py): the retry wrapper   *)
(* make_request_with_retry, the producer thread (GitHubDataProducer),      *)
(* the consumer thread (GitHubDataConsumer) and the orchestrating function *)
(* get_repository_technologies, connected by data_queue (maxsize 10) and   *)
(* result_queue (unbounded).                                               *)
(***************************************************************************)
EXTENDS Integers, Sequences, FiniteSets, TLC

(***************************************************************************)
(* Program constants                                                       *)
(***************************************************************************)
\* MAX_RETRIES = int(os.getenv("MAX_RETRIES", "5"))
MAX_RETRIES == 5

\* data_queue = queue.Queue(maxsize=10)
DataQueueMaxsize == 10

(***************************************************************************)
(* Bounds of the model                                                     *)
(***************************************************************************)
\* Pages a small organisation with varied repositories has at most.
MaxPages == 2

\* Repository nodes a small organisation has at most, over all its pages.
MaxNodes == 2

\* Pages a large organisation with uniform one-repository pages has.
LongPages == 12

(***************************************************************************)
(* make_request_with_retry                                                 *)
(*                                                                         *)
(* The transport ql.make_ql_request is an input: transport[i] is what its  *)
(* i-th call does: "ok" (a response with result.ok), "status" (a response  *)
(* with a non-success status) or "exception" (ChunkedEncodingError /       *)
(* RequestException raised).                                               *)
(***************************************************************************)
TransportOutcomes == {"ok", "status", "exception"}

\* One entry more than MAX_RETRIES, so that a call past the limit is defined.
TransportLen == MAX_RETRIES + 1

Transports == [1..TransportLen -> TransportOutcomes]

\* delay = 2**attempt
RECURSIVE Pow2(_)
Pow2(n) == IF n = 0 THEN 1 ELSE 2 * Pow2(n - 1)

\* Mutant: a linear delay, 2*attempt.
Delay_Linear(attempt) == 2 * attempt

Delay(attempt) == Pow2(attempt)

\* The except clause: re-raise on the final attempt only.
IsFinalAttempt(attempt) == attempt = MAX_RETRIES - 1

\* Mutant: range(MAX_RETRIES + 1).
InRange_OffByOne(attempt) == attempt <= MAX_RETRIES

\* for attempt in range(MAX_RETRIES)
InRange(attempt) == attempt < MAX_RETRIES

\* The body of the for loop from iteration `attempt` on.  trace is the
\* sequence of events so far: a transport call with its outcome, or a sleep
\* with its delay in seconds.
RECURSIVE RetryLoop(_, _, _)
RetryLoop(transport, attempt, trace) ==
    IF ~InRange(attempt)
    THEN \* raise Exception(f"Failed after {MAX_RETRIES} attempts")
         [outcome |-> "raise_failed", response |-> "none", trace |-> trace]
    ELSE LET got == transport[attempt + 1]
             called == Append(trace, [ev |-> "call", attempt |-> attempt,
                                      got |-> got, delay |-> 0])
             slept == Append(called, [ev |-> "sleep", attempt |-> attempt,
                                      got |-> got, delay |-> Delay(attempt)])
         IN  IF got = "ok"
             THEN [outcome |-> "return", response |-> got, trace |-> called]
             ELSE IF got = "exception" /\ IsFinalAttempt(attempt)
             THEN [outcome |-> "raise_transport", response |-> "none",
                   trace |-> called]
             ELSE RetryLoop(transport, attempt + 1, slept)

make_request_with_retry(transport) == RetryLoop(transport, 0, << >>)

\* What a caller of make_request_with_retry can see happen.
RetryOutcomes == {make_request_with_retry(t).outcome : t \in Transports}

(***************************************************************************)
(* State                                                                   *)
(***************************************************************************)
VARIABLES
    organisation,            \* the audited organisation: "small" or "large"
    pages_served,            \* page responses the API has answered with nodes
    nodes_served,            \* repository nodes the API has returned so far
    o_pc,                    \* get_repository_technologies: where it stands
    data_queue,              \* queue.Queue(maxsize=10), producer -> consumer
    result_queue,            \* queue.Queue(), consumer -> orchestrator
    all_repos,               \* records collected by the orchestrator
    done_consumers,          \* end-of-stream markers the orchestrator has seen
    output,                  \* the returned output object
    p_pc,                    \* producer thread: where fetch_data stands
    has_next_page,           \* producer.has_next_page
    cursor,                  \* producer.cursor (0 is None)
    repos_fetched,           \* producer.repos_fetched
    p_repos,                 \* fetch_data: repos of the page in hand
    p_page_info,             \* fetch_data: page_info of the page in hand
    c_pc,                    \* consumer thread: where process_data stands
    c_alive,                 \* consumer_thread.is_alive()
    org_teams,               \* consumer.org_teams
    language_stats,          \* consumer.language_stats
    archived_language_stats, \* consumer.archived_language_stats
    repos_processed,         \* consumer.repos_processed
    repos_batch,             \* process_data: the batch in hand
    c_i,                     \* process_data: nodes of repos_batch handled
    processed_repos,         \* process_data: records of the batch in hand
    p_puts,                  \* history: kinds of the items the producer put
    pushed,                  \* history: nodes of all batches the producer put
    c_log,                   \* history: the consumer's queue operations
    c_seen,                  \* history: nodes the consumer started to handle
    emitted,                 \* history: records the consumer put, in order
    teams_log,               \* history: the calls of fetch_org_teams
    p_requests,              \* history: the page requests of the producer
    r_transport,             \* a transport handed to make_request_with_retry
    r_result,                \* what make_request_with_retry did with it
    call_in,                 \* the arguments of one function called on its own
    call_out                 \* what that function returned

vars == << organisation, pages_served, nodes_served, o_pc, data_queue,
           result_queue, all_repos, done_consumers, output, p_pc,
           has_next_page, cursor, repos_fetched, p_repos, p_page_info, c_pc,
           c_alive,
           org_teams, language_stats, archived_language_stats,
           repos_processed, repos_batch, c_i, processed_repos, p_puts,
           pushed, c_log, c_seen, emitted, teams_log, p_requests, r_transport,
           r_result,
           call_in, call_out >>

envVars == << organisation, pages_served, nodes_served >>
orchVars == << o_pc, all_repos, done_consumers, output >>
prodVars == << p_pc, has_next_page, cursor, repos_fetched, p_repos,
               p_page_info, p_puts, pushed, p_requests >>
consVars == << c_pc, c_alive, language_stats, archived_language_stats,
               repos_processed, repos_batch, c_i, processed_repos, c_log,
               c_seen, emitted >>
teamVars == << org_teams, teams_log >>
retryVars == << r_transport, r_result >>
callVars == << call_in, call_out >>

(***************************************************************************)
(* Queue items: a batch (a list) or the end-of-stream marker None.         *)
(***************************************************************************)
BatchItem(repos) == [kind |-> "batch", repos |-> repos]

NoneItem == [kind |-> "none", repos |-> << >>]

\* Mutant: a queue without maxsize.
QueueHasRoom_Unbounded(q) == TRUE

\* data_queue.put blocks while the queue holds maxsize items.
QueueHasRoom(q) == Len(q) < DataQueueMaxsize

(***************************************************************************)
(* Text.  A str is a sequence of one-character strings; None is the value  *)
(* that is no str.                                                         *)
(***************************************************************************)
None == << "None" >>

UpperCase == << "A", "B", "C", "D", "E", "F", "G", "H", "I", "J", "K", "L",
                "M", "N", "O", "P", "Q", "R", "S", "T", "U", "V", "W", "X",
                "Y", "Z" >>
LowerCase == << "a", "b", "c", "d", "e", "f", "g", "h", "i", "j", "k", "l",
                "m", "n", "o", "p", "q", "r", "s", "t", "u", "v", "w", "x",
                "y", "z" >>

LowerChar(c) ==
    IF \E i \in 1..Len(UpperCase) : UpperCase[i] = c
    THEN LowerCase[CHOOSE i \in 1..Len(UpperCase) : UpperCase[i] = c]
    ELSE c

\* str.lower()
lower(s) == [i \in 1..Len(s) |-> LowerChar(s[i])]

\* needle in hay, for two str
Contains(hay, needle) ==
    \E i \in 0..(Len(hay) - Len(needle)) :
        SubSeq(hay, i + 1, i + Len(needle)) = needle

\* content.replace("\n", " ")
ReplaceNewlines(s) == [i \in 1..Len(s) |-> IF s[i] = "\n" THEN " " ELSE s[i]]

\* The elements of a list.
Range(seq) == {seq[i] : i \in 1..Len(seq)}

\* All str of at most maxLen characters of an alphabet.
Texts(alphabet, maxLen) == UNION {[1..n -> alphabet] : n \in 0..maxLen}

\* org = os.getenv("GITHUB_ORG"): the organisation the run is for.
GITHUB_ORG == << "a" >>

(***************************************************************************)
(* GitHubDataConsumer.fetch_codeowners                                     *)
(***************************************************************************)
paths == << "CODEOWNERS", ".github/CODEOWNERS", "docs/CODEOWNERS",
            ".gitlab/CODEOWNERS" >>

\* What the request for one path can come to: make_request_with_retry or
\* the reading of the body raised; the body has an error array; "file" is
\* null; the file has no text (null or absent); the text is empty; the text
\* is not empty.
PathResponses == {"raised", "errors", "no_file", "no_text", "empty", "text"}

\* The text of the file at path k, when it has one.
TextAt(k) == << "@", "a", "/", "t", " ", LowerCase[k] >>

\* data["data"]["repository"]["file"].get("text")
ContentOf(response, k) ==
    IF response = "text" THEN TextAt(k)
    ELSE IF response = "empty" THEN << >>
    ELSE None

\* if content: None and "" are false.
Truthy(content) == content # None /\ content # << >>

\* Mutant: a failed request ends the probing.
AfterFailedPath_Return(k) == Len(paths) + 1

\* The path probed after path k's request raised (the except clause logs and
\* the for loop goes on) or answered with an error array (continue).
AfterFailedPath(k) == k + 1

\* for path in paths, from path k on.  requests: the paths asked for so far.
RECURSIVE ProbePaths(_, _, _)
ProbePaths(responses, k, requests) ==
    IF k > Len(paths)
    THEN [content |-> None, requests |-> requests, found |-> 0]
    ELSE LET asked == Append(requests, paths[k])
         IN  IF responses[k] \in {"raised", "errors"}
             THEN ProbePaths(responses, AfterFailedPath(k), asked)
             ELSE IF responses[k] = "no_file"
             THEN ProbePaths(responses, k + 1, asked)
             ELSE IF Truthy(ContentOf(responses[k], k))
             THEN [content |-> ContentOf(responses[k], k),
                   requests |-> asked, found |-> 1]
             ELSE ProbePaths(responses, k + 1, asked)

fetch_codeowners(responses) == ProbePaths(responses, 1, << >>)

(***************************************************************************)
(* GitHubDataConsumer.parse_codeowners                                     *)
(***************************************************************************)
\* f"@{self.org}/{team_slug}"
Mention(org, team_slug) == << "@" >> \o org \o << "/" >> \o team_slug

\* team not in matched_teams: team is a dict and matched_teams holds the
\* names appended so far, which are str; a dict equals no str.
TeamNotIn(team, matched_teams) == TRUE

\* for team in self.org_teams, from team j on, for one matching team_slug.
RECURSIVE AppendTeamsOfSlug(_, _, _, _)
AppendTeamsOfSlug(teams, j, team_slug, matched_teams) ==
    IF j > Len(teams) THEN matched_teams
    ELSE AppendTeamsOfSlug(teams, j + 1, team_slug,
            IF teams[j].slug = team_slug /\ TeamNotIn(teams[j], matched_teams)
            THEN Append(matched_teams, teams[j].name)
            ELSE matched_teams)

\* for team_slug in team_slugs, from slug k on.  content has its newlines
\* replaced; it is lowercased for the test, the mention is not.
RECURSIVE SlugLoop(_, _, _, _, _)
SlugLoop(org, teams, k, content, matched_teams) ==
    IF k > Len(teams) THEN matched_teams
    ELSE SlugLoop(org, teams, k + 1, content,
            IF Contains(lower(content), Mention(org, teams[k].slug))
            THEN AppendTeamsOfSlug(teams, 1, teams[k].slug, matched_teams)
            ELSE matched_teams)

parse_codeowners(org, teams, content) ==
    IF content = None \/ content = << >> THEN << >>
    ELSE SlugLoop(org, teams, 1, ReplaceNewlines(content), << >>)

(***************************************************************************)
(* KEYWORDS_FILE                                                           *)
(***************************************************************************)
documentation_list ==
    << << "C", "o", "n", "f", "l", "u", "e", "n", "c", "e" >>,
       << "M", "K", "D", "o", "c", "s" >>,
       << "S", "p", "h", "i", "n", "x" >>,
       << "R", "e", "a", "d", "T", "h", "e", "D", "o", "c", "s" >> >>

cloud_services_list ==
    << << "A", "W", "S" >>,
       << "A", "z", "u", "r", "e" >>,
       << "G", "C", "P" >> >>

frameworks_list ==
    << << "R", "e", "a", "c", "t" >>,
       << "A", "n", "g", "u", "l", "a", "r" >>,
       << "V", "u", "e" >>,
       << "D", "j", "a", "n", "g", "o" >>,
       << "S", "t", "r", "e", "a", "m", "l", "i", "t" >>,
       << "F", "l", "a", "s", "k" >>,
       << "S", "p", "r", "i", "n", "g" >>,
       << "H", "i", "b", "e", "r", "n", "a", "t", "e" >>,
       << "E", "x", "p", "r", "e", "s", "s" >>,
       << "N", "e", "x", "t", ".", "j", "s" >>,
       << "P", "l", "a", "y" >>,
       << "A", "k", "k", "a" >>,
       << "L", "a", "g", "o", "m" >> >>

(***************************************************************************)
(* find_keywords_in_file                                                   *)
(***************************************************************************)
\* for keyword in keywords_list, from keyword k on.  keywords holds the
\* keywords appended so far, as they are spelt in keywords_list; the second
\* test looks for the lowercased keyword among them.
RECURSIVE KeywordLoop(_, _, _, _)
KeywordLoop(file, keywords_list, k, keywords) ==
    IF k > Len(keywords_list) THEN keywords
    ELSE KeywordLoop(file, keywords_list, k + 1,
            IF /\ Contains(lower(file), lower(keywords_list[k]))
               /\ lower(keywords_list[k]) \notin Range(keywords)
            THEN Append(keywords, keywords_list[k])
            ELSE keywords)

find_keywords_in_file(file, keywords_list) ==
    IF file = None THEN << >>
    ELSE KeywordLoop(file, keywords_list, 1, << >>)

\* Mutant: the two lists are joined as they are.
ListOfSet_Joined(list) ==
    [x \in Range(list) |-> Cardinality({i \in 1..Len(list) : list[i] = x})]

\* list(set(list)): a list of the distinct elements, in an order that the
\* language leaves open.  The list is kept up to its order, as the number
\* of times each element is in it.
ListOfSet(list) == [x \in Range(list) |-> 1]

(***************************************************************************)
(* Repository nodes of a page response.  name is set when the node is      *)
(* served.  A null node stands for an entry of "nodes" that is no object.  *)
(* ciIsFile: the root entry named "ci" is a blob, so that its "object" has *)
(* no "entries" key.                                                       *)
(***************************************************************************)
Edge(n, s) == [name |-> n, size |-> s]

\* committedDate of defaultBranchRef.target: an instant, counted in hours, or
\* no date (no default branch, no target, or a null committedDate).
NoDate == [isNone |-> TRUE, hour |-> 0]

Date(h) == [isNone |-> FALSE, hour |-> h]

Node(null, archived, vis, edges, total, ci) ==
    [name |-> 0, isNull |-> null, isArchived |-> archived, visibility |-> vis,
     edges |-> edges, totalSize |-> total, ciIsFile |-> ci,
     committedDate |-> NoDate, readme |-> None, pyproject |-> None,
     package_json |-> None,
     codeowners |-> [k \in 1..Len(paths) |-> "no_file"]]

Committed(node, h) == [node EXCEPT !.committedDate = Date(h)]

\* The node of a repository whose root holds a file named readme.md, in any
\* letter case, with this text.
WithReadme(node, content) == [node EXCEPT !.readme = content]

\* The node of a repository whose root holds a file named pyproject.toml
\* and a file named package.json, in any letter case, with these texts;
\* None: the root holds no such file.
WithManifests(node, pyproject_content, package_json_content) ==
    [node EXCEPT !.pyproject = pyproject_content,
                 !.package_json = package_json_content]

\* The node of a repository for which the requests for the four ownership
\* file paths come to these responses (see PathResponses).
WithCodeowners(node, responses) == [node EXCEPT !.codeowners = responses]

GoHclRepo ==
    Committed(Node(FALSE, FALSE, "PUBLIC",
                   << Edge("Go", 800), Edge("HCL", 200) >>, 1000, FALSE),
              4560)
ArchivedGoRepo ==
    Node(FALSE, TRUE, "PRIVATE", << Edge("Go", 2), Edge("Python", 1) >>, 3,
         FALSE)
NoLanguagesRepo == Node(FALSE, FALSE, "INTERNAL", << >>, 0, FALSE)
CiFileRepo == Node(FALSE, FALSE, "PUBLIC", << Edge("Go", 5) >>, 5, TRUE)
ZeroTotalRepo == Node(FALSE, TRUE, "PRIVATE", << Edge("Go", 0) >>, 0, FALSE)
NullNode == Node(TRUE, FALSE, "PUBLIC", << >>, 0, FALSE)

NodeShapes == {GoHclRepo, ArchivedGoRepo, NoLanguagesRepo, CiFileRepo,
               ZeroTotalRepo, NullNode}

(***************************************************************************)
(* GitHubDataConsumer.process_repo                                         *)
(***************************************************************************)
\* Greatest common divisor of two naturals.
RECURSIVE GCD(_, _)
GCD(a, b) == IF b = 0 THEN a ELSE GCD(b, a % b)

\* The number num / den, in lowest terms.
Fraction(num, den) ==
    LET g == GCD(num, den)
    IN  [num |-> num \div g, den |-> den \div g]

\* The sum of two such numbers.
AddFraction(a, b) == Fraction(a.num * b.den + b.num * a.den, a.den * b.den)

\* The entry a language gets on first use.
NewEntry == [repo_count |-> 0, average_percentage |-> Fraction(0, 1),
             total_size |-> 0]

EmptyStats == [l \in {} |-> NewEntry]

\* stats_dict[lang_name] is created on first use, then repo_count and
\* total_size are added to.
UpdateStats(stats_dict, lang_name, size, percentage) ==
    LET cur == IF lang_name \in DOMAIN stats_dict
               THEN stats_dict[lang_name]
               ELSE NewEntry
        new == [repo_count |-> cur.repo_count + 1,
                average_percentage |->
                    AddFraction(cur.average_percentage, percentage),
                total_size |-> cur.total_size + size]
    IN  [l \in DOMAIN stats_dict \cup {lang_name} |->
            IF l = lang_name THEN new ELSE stats_dict[l]]

\* percentage = (edge["size"] / total_size) * 100, as the exact fraction
\* num / den (the float the code computes is this value rounded).
Percentage(size, total_size) == [num |-> size * 100, den |-> total_size]

\* for edge in repo["languages"]["edges"], from edge k on.  The division by
\* total_size raises ZeroDivisionError before the edge's statistics are
\* written; the statistics of the edges before it stay written.
RECURSIVE LanguageLoop(_, _, _, _, _)
LanguageLoop(edges, k, total_size, stats_dict, languages) ==
    IF k > Len(edges)
    THEN [raised |-> FALSE, stats |-> stats_dict, languages |-> languages]
    ELSE IF total_size = 0
    THEN [raised |-> TRUE, stats |-> stats_dict, languages |-> languages]
    ELSE LanguageLoop(edges, k + 1, total_size,
                      UpdateStats(stats_dict, edges[k].name, edges[k].size,
                                  Percentage(edges[k].size, total_size)),
                      Append(languages,
                             [name |-> edges[k].name, size |-> edges[k].size,
                              percentage |->
                                  Percentage(edges[k].size, total_size)]))

\* Mutant: the archived test is dropped from the counts.
CountRepos_AnyArchived(repos, visibility, archivedOnly) ==
    Cardinality({i \in 1..Len(repos) :
                    visibility # "" => repos[i].visibility = visibility})

\* Mutant: one dictionary, language_stats, for every repository.
UsesArchivedStats_Never(is_archived) == FALSE

\* stats_dict = self.archived_language_stats if is_archived
\*              else self.language_stats
UsesArchivedStats(is_archived) == is_archived

\* zip(a, b): the pairs up to the end of the shorter list.
zip(a, b) ==
    [i \in 1..(IF Len(a) < Len(b) THEN Len(a) ELSE Len(b)) |-> << a[i], b[i] >>]

\* for doc, cl in zip(documentation_list, cloud_services_list), from pair k
\* on.
RECURSIVE ReadmeLoop(_, _, _, _, _)
ReadmeLoop(pairs, k, readme_content, docs, cloud) ==
    IF k > Len(pairs) THEN [docs |-> docs, cloud |-> cloud]
    ELSE ReadmeLoop(pairs, k + 1, readme_content,
            IF Contains(lower(readme_content), lower(pairs[k][1]))
            THEN Append(docs, pairs[k][1]) ELSE docs,
            IF Contains(lower(readme_content), lower(pairs[k][2]))
            THEN Append(cloud, pairs[k][2]) ELSE cloud)

\* if readme_content is not None: ...
ScanReadme(readme_content) ==
    IF readme_content = None THEN [docs |-> << >>, cloud |-> << >>]
    ELSE ReadmeLoop(zip(documentation_list, cloud_services_list), 1,
                    readme_content, << >>, << >>)

NoRecord == [name |-> 0, visibility |-> "", is_archived |-> FALSE,
             last_commit |-> NoDate, users |-> << >>, languages |-> << >>,
             docs |-> << >>, cloud |-> << >>, frameworks |-> << >>]

\* process_repo for a node that is an object.  raised: an exception reached
\* the except clause, which logs and returns None.  The two statistics
\* dictionaries are returned as the call leaves them.  The steps that can
\* raise are the language loop (lines 463-497) and the scan of the root
\* entries (lines 503-524); the record carries the name, the visibility, the
\* archived flag, the last commit, the owning teams, the languages, and the
\* documentation, cloud and framework keywords.
process_repo(repo, ls, als) ==
    LET is_archived == repo.isArchived
        codeowners_content == fetch_codeowners(repo.codeowners).content
        teams == parse_codeowners(GITHUB_ORG, org_teams, codeowners_content)
        stats_dict == IF UsesArchivedStats(is_archived) THEN als ELSE ls
        loop == IF repo.edges # << >>
                THEN LanguageLoop(repo.edges, 1, repo.totalSize, stats_dict, << >>)
                ELSE [raised |-> FALSE, stats |-> stats_dict, languages |-> << >>]
        frameworks_pyproject ==
            find_keywords_in_file(repo.pyproject, frameworks_list)
        frameworks_package_json ==
            find_keywords_in_file(repo.package_json, frameworks_list)
        \* entry["object"]["entries"] of a blob named "ci": KeyError
        raised == loop.raised \/ repo.ciIsFile
    IN  [raised |-> raised,
         repo_info |-> IF raised THEN NoRecord
                       ELSE [name |-> repo.name,
                             visibility |-> repo.visibility,
                             is_archived |-> is_archived,
                             last_commit |-> repo.committedDate,
                             users |-> teams,
                             languages |-> loop.languages,
                             docs |-> ScanReadme(repo.readme).docs,
                             cloud |-> ScanReadme(repo.readme).cloud,
                             frameworks |->
                                 ListOfSet(frameworks_pyproject
                                           \o frameworks_package_json)],
         language_stats |->
             IF UsesArchivedStats(is_archived) THEN ls ELSE loop.stats,
         archived_language_stats |->
             IF UsesArchivedStats(is_archived) THEN loop.stats ELSE als]

\* Mutant: a failed node ends the for loop.
NextIndexAfter_AbortBatch(i, batch, r) ==
    IF r.raised THEN Len(batch) ELSE i + 1

\* for repo in repos_batch: the loop goes on to the next node whatever
\* process_repo returned.
NextIndexAfter(i, batch, r) == i + 1

(***************************************************************************)
(* The statistics computation of get_repository_technologies               *)
(***************************************************************************)
\* round(x, 3) of the number num / den, in thousandths: the nearest
\* thousandth, and of two equally near ones the even one.
Round3(num, den) ==
    LET q == (num * 1000) \div den
        twice == 2 * ((num * 1000) % den)
    IN  IF twice > den \/ (twice = den /\ q % 2 = 1) THEN q + 1 ELSE q

\* Mutant: the accumulated percentage is reported as it is.
AveragePercentage_NotDivided(accumulated, repo_count) ==
    Round3(accumulated.num, accumulated.den)

\* round(stats["average_percentage"] / stats["repo_count"], 3), in
\* thousandths.  repo_count 0 raises ZeroDivisionError: no value.
AveragePercentage(accumulated, repo_count) ==
    Round3(accumulated.num, accumulated.den * repo_count)

LanguageAverages(stats) ==
    [l \in DOMAIN stats |->
        [repo_count |-> stats[l].repo_count,
         average_percentage |->
             AveragePercentage(stats[l].average_percentage,
                               stats[l].repo_count),
         total_size |-> stats[l].total_size]]

\* sum(1 for repo in all_repos if ...), for the visibility and archived tests
\* of lines 666-684.  visibility "" stands for no test of it.
CountRepos(repos, visibility, archivedOnly) ==
    Cardinality({i \in 1..Len(repos) :
                    /\ visibility # "" => repos[i].visibility = visibility
                    /\ archivedOnly => repos[i].is_archived})

\* Mutant: a started day counts as a day.
ElapsedDays_RoundedUp(now, last_commit) == (now - last_commit.hour + 23) \div 24

\* (datetime.now(timezone.utc) - datetime.fromisoformat(last_commit)).days:
\* the whole days of the difference, rounded down.
ElapsedDays(now, last_commit) == (now - last_commit.hour) \div 24

\* sum(1 for repo in all_repos if repo["last_commit"] and [not]
\* repo["is_archived"] and (now - last_commit).days <= days)
CountActive(repos, archived, days, now) ==
    Cardinality({i \in 1..Len(repos) :
                    /\ ~repos[i].last_commit.isNone
                    /\ repos[i].is_archived = archived
                    /\ ElapsedDays(now, repos[i].last_commit) <= days})

\* The readings of the clock when the output is built, in hours.
Nows == {4800, 4801}

Aggregate(repos, ls, als, now) ==
    LET total_repos == Len(repos)
        private_repos == CountRepos(repos, "PRIVATE", FALSE)
        public_repos == CountRepos(repos, "PUBLIC", FALSE)
        internal_repos == CountRepos(repos, "INTERNAL", FALSE)
        archived_repos == CountRepos(repos, "", TRUE)
        archived_private == CountRepos(repos, "PRIVATE", TRUE)
        archived_public == CountRepos(repos, "PUBLIC", TRUE)
        archived_internal == CountRepos(repos, "INTERNAL", TRUE)
    IN  [repositories |-> repos,
         stats_unarchived |-> [total |-> total_repos - archived_repos,
                               private |-> private_repos - archived_private,
                               public |-> public_repos - archived_public,
                               internal |-> internal_repos - archived_internal,
                               active_last_month |->
                                   CountActive(repos, FALSE, 30, now),
                               active_last_3months |->
                                   CountActive(repos, FALSE, 90, now),
                               active_last_6months |->
                                   CountActive(repos, FALSE, 180, now)],
         stats_archived |-> [total |-> archived_repos,
                             private |-> archived_private,
                             public |-> archived_public,
                             internal |-> archived_internal,
                             active_last_month |->
                                 CountActive(repos, TRUE, 30, now),
                             active_last_3months |->
                                 CountActive(repos, TRUE, 90, now),
                             active_last_6months |->
                                 CountActive(repos, TRUE, 180, now)],
         language_statistics_unarchived |-> LanguageAverages(ls),
         language_statistics_archived |-> LanguageAverages(als)]

NoOutput == Aggregate(<< >>, EmptyStats, EmptyStats, 0)

(***************************************************************************)
(* The API seen by the pipeline                                            *)
(***************************************************************************)
OrgTeams == << [name |-> "Team A", slug |-> << "t" >>] >>

\* What result.json() of the teams query can be: an error array, a body
\* without the expected keys, no team nodes, or the team nodes.
TeamResponses == {"errors", "malformed", "empty", "teams"}

\* Mutant: the error array is not looked at and the data beside it is used.
fetch_org_teams_ErrorsIgnored(outcome, resp) ==
    IF outcome # "return" THEN << >>
    ELSE IF resp \in {"teams", "errors"} THEN OrgTeams
    ELSE << >>

\* GitHubDataConsumer.fetch_org_teams: every failure yields [].
fetch_org_teams(outcome, resp) ==
    IF outcome # "return" THEN << >>
    ELSE IF resp = "teams" THEN OrgTeams
    ELSE << >>

\* The failures of fetch_org_teams: the request raised after its retries
\* (caught at line 342), the body has an error array (line 326), or the body
\* lacks the expected keys (KeyError, caught at line 342).
TeamFetchFailed(outcome, resp) ==
    outcome # "return" \/ resp \in {"errors", "malformed"}

Batches(maxLen) == UNION {[1..n -> NodeShapes] : n \in 0..maxLen}

\* The nodes of a page, named by their place in the organisation.
Named(nodes, first) ==
    [i \in 1..Len(nodes) |-> [nodes[i] EXCEPT !.name = first + i]]

PageOf(nodes, more) ==
    [kind |-> "ok", nodes |-> Named(nodes, nodes_served), hasNextPage |-> more,
     endCursor |-> pages_served + 1]

NoPage(kind) ==
    [kind |-> kind, nodes |-> << >>, hasNextPage |-> FALSE, endCursor |-> 0]

\* A body with an error array, and a page of data beside it.
ErrorPage == [PageOf(<< GoHclRepo >>, TRUE) EXCEPT !.kind = "errors"]

\* What result.json() of the next page query can be.  The organisation is
\* finite: its last page reports hasNextPage false.
PageResponses ==
    {ErrorPage, NoPage("malformed")} \cup
    (IF organisation = "small"
     THEN {PageOf(nodes, more) :
               nodes \in Batches(MaxNodes - nodes_served),
               more \in (IF pages_served + 1 < MaxPages THEN BOOLEAN ELSE {FALSE})}
     ELSE {PageOf(<< GoHclRepo >>, pages_served + 1 < LongPages)})

(***************************************************************************)
(* Initial state: get_repository_technologies is about to run.             *)
(***************************************************************************)
NotCalled == [outcome |-> "not_called", response |-> "none", trace |-> << >>]

\* No function is called on its own.
NoCall ==
    /\ call_in = [fn |-> "none"]
    /\ call_out = [done |-> FALSE]

InitPipeline ==
    /\ pages_served = 0
    /\ nodes_served = 0
    /\ o_pc = "start"
    /\ data_queue = << >>
    /\ result_queue = << >>
    /\ all_repos = << >>
    /\ done_consumers = 0
    /\ output = NoOutput
    /\ p_pc = "unstarted"
    /\ has_next_page = TRUE
    /\ cursor = 0
    /\ repos_fetched = 0
    /\ p_repos = << >>
    /\ p_page_info = NoPage("none")
    /\ c_pc = "unstarted"
    /\ c_alive = FALSE
    /\ language_stats = EmptyStats
    /\ archived_language_stats = EmptyStats
    /\ repos_processed = 0
    /\ repos_batch = << >>
    /\ c_i = 0
    /\ processed_repos = << >>
    /\ p_puts = << >>
    /\ pushed = << >>
    /\ c_log = << >>
    /\ c_seen = << >>
    /\ emitted = << >>
    /\ teams_log = << >>
    /\ p_requests = << >>

Init ==
    /\ organisation \in {"small", "large"}
    /\ InitPipeline
    /\ org_teams = << >>
    /\ r_transport = [i \in 1..TransportLen |-> "ok"]
    /\ r_result = NotCalled
    /\ NoCall

(***************************************************************************)
(* get_repository_technologies (the orchestrating thread)                  *)
(***************************************************************************)
\* Lines 624-632: the queues, the producer and the consumer are created;
\* the consumer's constructor fetches the teams.
OrchestratorConstruct ==
    /\ o_pc = "start"
    /\ \E outcome \in RetryOutcomes, resp \in TeamResponses :
           /\ org_teams' = fetch_org_teams(outcome, resp)
           /\ teams_log' = Append(teams_log,
                  [failed |-> TeamFetchFailed(outcome, resp),
                   teams |-> fetch_org_teams(outcome, resp)])
    /\ o_pc' = "start_producer"
    /\ UNCHANGED << envVars, data_queue, result_queue, all_repos,
                    done_consumers, output, prodVars, consVars, retryVars,
                    callVars >>

\* producer_thread.start()
OrchestratorStartProducer ==
    /\ o_pc = "start_producer"
    /\ p_pc' = "fetch"
    /\ o_pc' = "start_consumer"
    /\ UNCHANGED << envVars, data_queue, result_queue, all_repos,
                    done_consumers, output, has_next_page, cursor,
                    repos_fetched, p_repos, p_page_info, p_puts, pushed,
                    p_requests,
                    teamVars, consVars, retryVars, callVars >>

\* consumer_thread.start()
OrchestratorStartConsumer ==
    /\ o_pc = "start_consumer"
    /\ c_pc' = "get"
    /\ c_alive' = TRUE
    /\ o_pc' = "collect"
    /\ UNCHANGED << envVars, data_queue, result_queue, all_repos,
                    done_consumers, output, prodVars, teamVars,
                    language_stats, archived_language_stats, repos_processed,
                    repos_batch, c_i, processed_repos, c_log, c_seen, emitted,
                    retryVars, callVars >>

\* Mutant: the collecting loop is left after the first result.
CollectDone_AfterFirst(dc) == TRUE

\* while done_consumers < 1
CollectDone(dc) == ~(dc < 1)

\* Mutant: all_repos = result.
Extend_Overwrite(all, result) == result

\* all_repos.extend(result)
Extend(all, result) == all \o result

\* One turn of the collecting loop: result_queue.get() blocks on an empty
\* queue.
OrchestratorCollect ==
    /\ o_pc = "collect"
    /\ result_queue # << >>
    /\ LET result == Head(result_queue)
           dc == IF result.kind = "none" THEN done_consumers + 1
                 ELSE done_consumers
       IN  /\ result_queue' = Tail(result_queue)
           /\ done_consumers' = dc
           /\ all_repos' = IF result.kind = "none" THEN all_repos
                           ELSE Extend(all_repos, result.repos)
           /\ o_pc' = IF CollectDone(dc) THEN "join_producer" ELSE "collect"
    /\ UNCHANGED << envVars, data_queue, output, prodVars, teamVars,
                    consVars, retryVars, callVars >>

\* producer_thread.join()
OrchestratorJoinProducer ==
    /\ o_pc = "join_producer"
    /\ p_pc = "done"
    /\ o_pc' = "join_consumer"
    /\ UNCHANGED << envVars, data_queue, result_queue, all_repos,
                    done_consumers, output, prodVars, teamVars, consVars,
                    retryVars, callVars >>

\* Mutant: the orchestrator does not wait for the thread.
ThreadEnded_NoJoin(alive) == TRUE

\* What join() waits for.
ThreadEnded(alive) == ~alive

\* consumer_thread.join(): returns when the thread has ended, by return or
\* by an uncaught exception.
OrchestratorJoinConsumer ==
    /\ o_pc = "join_consumer"
    /\ ThreadEnded(c_alive)
    /\ o_pc' = "aggregate"
    /\ UNCHANGED << envVars, data_queue, result_queue, all_repos,
                    done_consumers, output, prodVars, teamVars, consVars,
                    retryVars, callVars >>

\* Lines 664-809: the statistics and the output object.
OrchestratorAggregate ==
    /\ o_pc = "aggregate"
    /\ \E now \in Nows :
           output' = Aggregate(all_repos, language_stats,
                               archived_language_stats, now)
    /\ o_pc' = "returned"
    /\ UNCHANGED << envVars, data_queue, result_queue, all_repos,
                    done_consumers, prodVars, teamVars, consVars, retryVars, callVars >>

(***************************************************************************)
(* GitHubDataProducer.fetch_data (the producer thread)                     *)
(***************************************************************************)
\* A page request as the history keeps it: the cursor it carried, how it
\* ended (a page, an error array, or the except clause) and, for a page, the
\* page info of the response.
Request(c, kind, data) ==
    [cursor |-> c, kind |-> kind, hasNextPage |-> data.hasNextPage,
     endCursor |-> data.endCursor]

\* Mutant: "continue" in place of the "break" of line 248.
OnErrorArray_Continue == "fetch"

\* if "errors" in data: logger.error(...); break
OnErrorArray == "signal"

\* Mutant: the cursor is never advanced.
NextCursor_Stale(page_info) == 0

\* self.cursor = page_info["endCursor"]
NextCursor(page_info) == page_info.endCursor

\* Mutant: "return" in place of "break".
OnFetchError_Return == "done"

\* "break" in the except clause: the loop is left and the statement after
\* it, data_queue.put(None), comes next.
OnFetchError == "signal"

\* One turn of the while loop up to data_queue.put(repos): the request, the
\* check for an error array and the reading of the nodes and the page info.
ProducerFetch ==
    /\ p_pc = "fetch"
    /\ has_next_page
    /\ \E outcome \in RetryOutcomes, data \in PageResponses :
           IF outcome # "return" \/ data.kind = "malformed"
           THEN /\ p_pc' = OnFetchError
                /\ p_requests' = Append(p_requests, Request(cursor, "exception",
                                                            NoPage("none")))
                /\ UNCHANGED << envVars, repos_fetched, p_repos, p_page_info >>
           ELSE IF data.kind = "errors"
           THEN /\ p_pc' = OnErrorArray
                /\ p_requests' = Append(p_requests, Request(cursor, "errors",
                                                            NoPage("none")))
                /\ UNCHANGED << envVars, repos_fetched, p_repos, p_page_info >>
           ELSE /\ p_requests' = Append(p_requests, Request(cursor, "ok", data))
                /\ pages_served' = pages_served + 1
                /\ nodes_served' = nodes_served + Len(data.nodes)
                /\ organisation' = organisation
                /\ repos_fetched' = repos_fetched + Len(data.nodes)
                /\ p_repos' = data.nodes
                /\ p_page_info' = data
                /\ p_pc' = "put"
    /\ UNCHANGED << orchVars, data_queue, result_queue, has_next_page, cursor,
                    p_puts, pushed, teamVars, consVars, retryVars, callVars >>

\* data_queue.put(repos), which blocks on a full queue, then the page info
\* is taken over and the while condition is tested.
ProducerPut ==
    /\ p_pc = "put"
    /\ QueueHasRoom(data_queue)
    /\ data_queue' = Append(data_queue, BatchItem(p_repos))
    /\ p_puts' = Append(p_puts, "batch")
    /\ pushed' = pushed \o p_repos
    /\ has_next_page' = p_page_info.hasNextPage
    /\ cursor' = NextCursor(p_page_info)
    /\ p_pc' = IF p_page_info.hasNextPage THEN "fetch" ELSE "signal"
    /\ p_repos' = << >>
    /\ p_page_info' = NoPage("none")
    /\ UNCHANGED << envVars, orchVars, result_queue, repos_fetched, p_requests,
                    teamVars,
                    consVars, retryVars, callVars >>

\* data_queue.put(None)
ProducerSignal ==
    /\ p_pc = "signal"
    /\ QueueHasRoom(data_queue)
    /\ data_queue' = Append(data_queue, NoneItem)
    /\ p_puts' = Append(p_puts, "none")
    /\ p_pc' = "done"
    /\ UNCHANGED << envVars, orchVars, result_queue, has_next_page, cursor,
                    repos_fetched, p_repos, p_page_info, pushed, p_requests,
                    teamVars, consVars, retryVars, callVars >>

(***************************************************************************)
(* GitHubDataConsumer.process_data (the consumer thread)                   *)
(***************************************************************************)
\* repos_batch = self.data_queue.get(), which blocks on an empty queue.
ConsumerGet ==
    /\ c_pc = "get"
    /\ data_queue # << >>
    /\ LET item == Head(data_queue)
       IN  /\ data_queue' = Tail(data_queue)
           /\ IF item.kind = "none"
              THEN /\ c_pc' = "signal"
                   /\ c_log' = Append(c_log, "get_none")
                   /\ UNCHANGED << repos_batch, c_i, processed_repos >>
              ELSE /\ c_pc' = "process"
                   /\ c_log' = Append(c_log, "get_batch")
                   /\ repos_batch' = item.repos
                   /\ c_i' = 0
                   /\ processed_repos' = << >>
    /\ UNCHANGED << envVars, orchVars, result_queue, prodVars, teamVars,
                    c_alive, language_stats, archived_language_stats, repos_processed,
                    c_seen, emitted, retryVars, callVars >>

\* One turn of "for repo in repos_batch".  repo.get(...) in the logging call
\* of line 595 is outside every try: on a node that is no object it raises
\* AttributeError, which ends the thread.
ConsumerProcessRepo ==
    /\ c_pc = "process"
    /\ c_i < Len(repos_batch)
    /\ LET repo == repos_batch[c_i + 1]
           r == process_repo(repo, language_stats, archived_language_stats)
       IN  /\ c_seen' = Append(c_seen, repo)
           /\ IF repo.isNull
              THEN /\ c_pc' = "crashed"
                   /\ c_alive' = FALSE
                   /\ UNCHANGED << language_stats, archived_language_stats,
                                   repos_processed, c_i, processed_repos >>
              ELSE /\ c_pc' = "process"
                   /\ c_alive' = c_alive
                   /\ language_stats' = r.language_stats
                   /\ archived_language_stats' = r.archived_language_stats
                   /\ processed_repos' = IF r.raised THEN processed_repos
                                         ELSE Append(processed_repos, r.repo_info)
                   /\ repos_processed' = IF r.raised THEN repos_processed
                                         ELSE repos_processed + 1
                   /\ c_i' = NextIndexAfter(c_i, repos_batch, r)
    /\ UNCHANGED << envVars, orchVars, data_queue, result_queue, prodVars,
                    teamVars, repos_batch, c_log, emitted, retryVars, callVars >>

\* self.result_queue.put(processed_repos), after the for loop
ConsumerPutResult ==
    /\ c_pc = "process"
    /\ c_i >= Len(repos_batch)
    /\ result_queue' = Append(result_queue, BatchItem(processed_repos))
    /\ emitted' = emitted \o processed_repos
    /\ c_log' = Append(c_log, "put_batch")
    /\ c_pc' = "get"
    /\ repos_batch' = << >>
    /\ c_i' = 0
    /\ processed_repos' = << >>
    /\ UNCHANGED << envVars, orchVars, data_queue, prodVars, teamVars,
                    c_alive, language_stats, archived_language_stats, repos_processed,
                    c_seen, retryVars, callVars >>

\* self.result_queue.put(None), after the while loop
ConsumerSignal ==
    /\ c_pc = "signal"
    /\ result_queue' = Append(result_queue, NoneItem)
    /\ c_log' = Append(c_log, "put_none")
    /\ c_pc' = "done"
    /\ UNCHANGED << envVars, orchVars, data_queue, prodVars, teamVars,
                    c_alive, language_stats, archived_language_stats, repos_processed,
                    repos_batch, c_i, processed_repos, c_seen, emitted,
                    retryVars, callVars >>

\* The logging call after the marker (lines 606-608), and process_data
\* returns: the thread ends.
ConsumerReturn ==
    /\ c_pc = "done"
    /\ c_alive
    /\ c_alive' = FALSE
    /\ UNCHANGED << envVars, orchVars, data_queue, result_queue, prodVars,
                    teamVars, c_pc, language_stats, archived_language_stats,
                    repos_processed, repos_batch, c_i, processed_repos, c_log,
                    c_seen, emitted, retryVars, callVars >>

(***************************************************************************)
(* The pipeline                                                            *)
(***************************************************************************)
OrchestratorStep ==
    \/ OrchestratorConstruct
    \/ OrchestratorStartProducer
    \/ OrchestratorStartConsumer
    \/ OrchestratorCollect
    \/ OrchestratorJoinProducer
    \/ OrchestratorJoinConsumer
    \/ OrchestratorAggregate

ProducerStep == ProducerFetch \/ ProducerPut \/ ProducerSignal

ConsumerStep ==
    \/ ConsumerGet
    \/ ConsumerProcessRepo
    \/ ConsumerPutResult
    \/ ConsumerSignal
    \/ ConsumerReturn

Next == OrchestratorStep \/ ProducerStep \/ ConsumerStep

Spec == Init /\ [][Next]_vars

(***************************************************************************)
(* make_request_with_retry on its own: one call on any transport.          *)
(***************************************************************************)
InitRetry ==
    /\ organisation = "small"
    /\ InitPipeline
    /\ org_teams = << >>
    /\ r_transport \in Transports
    /\ r_result = NotCalled
    /\ NoCall

CallRetry ==
    /\ r_result = NotCalled
    /\ r_result' = make_request_with_retry(r_transport)
    /\ UNCHANGED << envVars, orchVars, data_queue, result_queue, prodVars,
                    teamVars, consVars, r_transport, callVars >>

NextRetry == CallRetry

SpecRetry == InitRetry /\ [][NextRetry]_vars

(***************************************************************************)
(* parse_codeowners on its own: one call for any organisation name, team   *)
(* list and content.                                                       *)
(***************************************************************************)
MaxTeams == 2
MaxContentLen == 4

OrgNames == {<< "a" >>, << "A" >>}

TeamKinds == {[name |-> "Team T", slug |-> << "t" >>],
              [name |-> "Team U", slug |-> << "T" >>]}

TeamLists == UNION {[1..n -> TeamKinds] : n \in 0..MaxTeams}

ContentAlphabet == {"@", "/", "a", "A", "t", "\n"}

\* The state in which no part of the pipeline has run.
InitIdle ==
    /\ organisation = "small"
    /\ InitPipeline
    /\ org_teams = << >>
    /\ r_transport = [i \in 1..TransportLen |-> "ok"]
    /\ r_result = NotCalled

InitParse ==
    /\ InitIdle
    /\ \E org \in OrgNames, teams \in TeamLists,
          content \in Texts(ContentAlphabet, MaxContentLen) \cup {None} :
           call_in = [fn |-> "parse_codeowners", org |-> org,
                      org_teams |-> teams, content |-> content]
    /\ call_out = [done |-> FALSE]

CallParse ==
    /\ ~call_out.done
    /\ call_out' = [done |-> TRUE,
                    value |-> parse_codeowners(call_in.org, call_in.org_teams,
                                               call_in.content)]
    /\ UNCHANGED << envVars, orchVars, data_queue, result_queue, prodVars,
                    teamVars, consVars, retryVars, call_in >>

NextParse == CallParse

SpecParse == InitParse /\ [][NextParse]_vars

(***************************************************************************)
(* The languages connection of a repository node, as the query of          *)
(* fetch_data asks for it: languages(first: 10, orderBy: {field: SIZE,     *)
(* direction: DESC}) { edges {...} totalSize }.  The edges are the first   *)
(* 10 languages by size; totalSize is the size of all the languages.       *)
(***************************************************************************)
LanguagesFirst == 10

MaxLanguages == 11

LanguageNames == << "Python", "JavaScript", "HTML", "CSS", "Shell", "Go",
                    "HCL", "Dockerfile", "Makefile", "TypeScript", "Java",
                    "Ruby", "C" >>

\* The languages of a repository, largest first: big of size 3, then small
\* of size 1.
RepoLanguages(big, small) ==
    [k \in 1..(big + small) |->
        Edge(LanguageNames[k], IF k <= big THEN 3 ELSE 1)]

RECURSIVE SumSizes(_, _)
SumSizes(edges, k) ==
    IF k > Len(edges) THEN 0 ELSE edges[k].size + SumSizes(edges, k + 1)

\* The "languages" object of the response for a repository with these
\* languages.
LanguagesConnection(all) ==
    [edges |-> SubSeq(all, 1, IF Len(all) < LanguagesFirst THEN Len(all)
                                                           ELSE LanguagesFirst),
     totalSize |-> SumSizes(all, 1)]

(***************************************************************************)
(* process_repo on its own: one call on the node of any repository.        *)
(***************************************************************************)
InitLanguages ==
    /\ InitIdle
    /\ \E big \in 0..MaxLanguages, small \in 0..MaxLanguages,
          archived \in BOOLEAN :
           /\ big + small <= MaxLanguages
           /\ LET conn == LanguagesConnection(RepoLanguages(big, small))
              IN  call_in = [fn |-> "process_repo",
                             repo |-> Node(FALSE, archived, "PUBLIC",
                                           conn.edges, conn.totalSize, FALSE)]
    /\ call_out = [done |-> FALSE]

CallProcessRepo ==
    /\ ~call_out.done
    /\ call_out' = [done |-> TRUE,
                    value |-> process_repo(call_in.repo, EmptyStats,
                                           EmptyStats)]
    /\ UNCHANGED << envVars, orchVars, data_queue, result_queue, prodVars,
                    teamVars, consVars, retryVars, call_in >>

NextLanguages == CallProcessRepo

SpecLanguages == InitLanguages /\ [][NextLanguages]_vars

(***************************************************************************)
(* The statistics of get_repository_technologies on their own: the output  *)
(* built from any list of collected records.                               *)
(***************************************************************************)
MaxRecords == 2

\* Last commits 10 days, 30 days 23 hours, 90 days 23 hours, 180 days 23
\* hours and 200 days before the first reading of the clock.
CommitHours == {4560, 4057, 2617, 457, 0}

RecordKinds ==
    {[name |-> 0, visibility |-> v, is_archived |-> a, last_commit |-> c,
      languages |-> << >>] :
        v \in {"PRIVATE", "PUBLIC", "INTERNAL"}, a \in BOOLEAN,
        c \in {Date(h) : h \in CommitHours} \cup {NoDate}}

InitStats ==
    /\ InitIdle
    /\ \E n \in 0..MaxRecords :
         \E repos \in [1..n -> RecordKinds], now \in Nows :
           call_in = [fn |-> "statistics", all_repos |-> repos, now |-> now]
    /\ call_out = [done |-> FALSE]

CallStats ==
    /\ ~call_out.done
    /\ call_out' = [done |-> TRUE,
                    value |-> Aggregate(call_in.all_repos, EmptyStats,
                                        EmptyStats, call_in.now)]
    /\ UNCHANGED << envVars, orchVars, data_queue, result_queue, prodVars,
                    teamVars, consVars, retryVars, call_in >>

NextStats == CallStats

SpecStats == InitStats /\ [][NextStats]_vars

(***************************************************************************)
(* fetch_codeowners on its own: one call, for any responses to the paths.  *)
(***************************************************************************)
InitFetchCodeowners ==
    /\ InitIdle
    /\ \E responses \in [1..Len(paths) -> PathResponses] :
           call_in = [fn |-> "fetch_codeowners", responses |-> responses]
    /\ call_out = [done |-> FALSE]

CallFetchCodeowners ==
    /\ ~call_out.done
    /\ call_out' = [done |-> TRUE,
                    value |-> fetch_codeowners(call_in.responses)]
    /\ UNCHANGED << envVars, orchVars, data_queue, result_queue, prodVars,
                    teamVars, consVars, retryVars, call_in >>

NextFetchCodeowners == CallFetchCodeowners

SpecFetchCodeowners == InitFetchCodeowners /\ [][NextFetchCodeowners]_vars

(***************************************************************************)
(* process_repo on its own, on the node of a repository with any README.   *)
(***************************************************************************)
MaxReadmeWords == 2

\* The words of a README: each keyword as the lists write it and in lower
\* case, and a word that is no keyword.
ReadmeWords ==
    {documentation_list[i] : i \in 1..Len(documentation_list)}
      \cup {lower(documentation_list[i]) : i \in 1..Len(documentation_list)}
      \cup {cloud_services_list[i] : i \in 1..Len(cloud_services_list)}
      \cup {lower(cloud_services_list[i]) : i \in 1..Len(cloud_services_list)}
      \cup {<< "d", "o", "c", "s" >>}

\* The words of a list, each followed by a newline.
RECURSIVE Lines(_, _)
Lines(words, k) ==
    IF k > Len(words) THEN << >>
    ELSE words[k] \o << "\n" >> \o Lines(words, k + 1)

Readmes ==
    {Lines(words, 1) :
        words \in UNION {[1..n -> ReadmeWords] : n \in 0..MaxReadmeWords}}

InitReadme ==
    /\ InitIdle
    /\ \E readme \in Readmes \cup {None}, archived \in BOOLEAN :
           call_in = [fn |-> "process_repo",
                      repo |-> WithReadme(Node(FALSE, archived, "PUBLIC",
                                               << >>, 0, FALSE), readme)]
    /\ call_out = [done |-> FALSE]

NextReadme == CallProcessRepo

SpecReadme == InitReadme /\ [][NextReadme]_vars

(***************************************************************************)
(* process_repo on its own, on the node of a repository whose ownership    *)
(* file requests come to any responses, in an organisation with one team.  *)
(***************************************************************************)
InitOwners ==
    /\ organisation = "small"
    /\ InitPipeline
    /\ org_teams = OrgTeams
    /\ r_transport = [i \in 1..TransportLen |-> "ok"]
    /\ r_result = NotCalled
    /\ \E responses \in [1..Len(paths) -> PathResponses] :
           call_in = [fn |-> "process_repo",
                      repo |-> WithCodeowners(GoHclRepo, responses)]
    /\ call_out = [done |-> FALSE]

NextOwners == CallProcessRepo

SpecOwners == InitOwners /\ [][NextOwners]_vars

(***************************************************************************)
(* process_repo on its own, on the node of a repository with any           *)
(* pyproject.toml and any package.json, or without them.                   *)
(***************************************************************************)
\* Texts of a manifest: empty, naming frameworks in several letter cases,
\* naming one inside a longer word, and naming one without its dot.
Manifests ==
    {<< >>,
     << "d", "j", "a", "n", "g", "o" >>,
     << "D", "J", "A", "N", "G", "O" >>,
     << "D", "j", "a", "n", "g", "o", " ", "f", "l", "a", "s", "k" >>,
     << "n", "e", "x", "t", ".", "j", "s" >>,
     << "n", "e", "x", "t", "j", "s" >>,
     << "d", "i", "s", "p", "l", "a", "y" >>,
     << "v", "u", "e", " ", "r", "e", "a", "c", "t" >>,
     << "a", "k", "k", "a" >>,
     << "L", "a", "g", "o", "m", " ", "s", "p", "r", "i", "n", "g" >>}

InitFrameworks ==
    /\ InitIdle
    /\ \E pyproject_content \in Manifests \cup {None},
          package_json_content \in Manifests \cup {None} :
           call_in = [fn |-> "process_repo",
                      repo |-> WithManifests(GoHclRepo, pyproject_content,
                                             package_json_content)]
    /\ call_out = [done |-> FALSE]

NextFrameworks == CallProcessRepo

SpecFrameworks == InitFrameworks /\ [][NextFrameworks]_vars

(***************************************************************************)
(* Properties                                                              *)
(***************************************************************************)
CountOf(seq, x) == Cardinality({i \in 1..Len(seq) : seq[i] = x})

\* The nodes or records of the batches waiting on a queue, in order.
RECURSIVE Flatten(_)
Flatten(q) == IF q = << >> THEN << >> ELSE Head(q).repos \o Flatten(Tail(q))

\* The node fails inside process_repo: the exception is caught there.
FailsInside(n) == ~n.isNull /\ process_repo(n, EmptyStats, EmptyStats).raised

\* The node yields no record.
Dropped(n) == n.isNull \/ FailsInside(n)

\* The part of the batch in hand that the consumer has not started on.
Unhandled ==
    LET h == IF c_pc = "crashed" THEN c_i + 1 ELSE c_i
    IN  SubSeq(repos_batch, h + 1, Len(repos_batch))

\* C1: the producer puts at most one end-of-stream marker, nothing after it,
\* and when fetch_data has returned it has put exactly one, as its last item,
\* whether the pages ended, an error array came back or the request failed.
C1_OneMarkerPutLast ==
    /\ CountOf(p_puts, "none") <= 1
    /\ \A i \in 1..Len(p_puts) : p_puts[i] = "none" => i = Len(p_puts)
    /\ (p_pc = "done") <=> (CountOf(p_puts, "none") = 1)
    /\ CountOf(p_puts, "none") = CountOf(data_queue, NoneItem)
                                 + CountOf(c_log, "get_none")

\* C1 witness: fetch_data has returned after a pushed page that announced a
\* next page: the pagination was aborted, and the marker was put.
C1_Witness ==
    /\ p_pc = "done"
    /\ has_next_page
    /\ p_puts = << "batch", "none" >>

\* C2: in every state either get_repository_technologies has returned or
\* some thread can take a step: no thread waits forever on a queue or a join.
C2_NoDeadlock == o_pc = "returned" \/ ENABLED Next

\* C3: the statistics are computed only after the orchestrator has taken the
\* consumer's marker and both threads have ended; then the result queue is
\* empty and all_repos holds every record the consumer put.
C3_AggregatorAfterDrain ==
    o_pc \in {"aggregate", "returned"} =>
        /\ done_consumers = 1
        /\ CountOf(c_log, "put_none") = 1
        /\ p_pc = "done"
        /\ c_pc \in {"done", "crashed"}
        /\ result_queue = << >>
        /\ all_repos = emitted
        /\ processed_repos = << >>

\* C3 witness: the statistics are about to be computed over two records.
C3_Witness == o_pc = "aggregate" /\ Len(all_repos) = 2

C5_BoundedDataQueue ==
    /\ Len(data_queue) <= DataQueueMaxsize
    /\ (p_pc \in {"put", "signal"} /\ Len(data_queue) = DataQueueMaxsize)
           => ~ENABLED ProducerStep
    /\ p_pc = "put" => ~ENABLED ProducerFetch
    /\ pages_served - CountOf(c_log, "get_batch") <= DataQueueMaxsize + 1

\* C5 witness: the producer holds a fetched batch and the queue is full.
C5_Witness ==
    /\ p_pc = "put"
    /\ Len(data_queue) = DataQueueMaxsize
    /\ pages_served - CountOf(c_log, "get_batch") = DataQueueMaxsize + 1

\* The transport calls of a trace and its sleeps, each in order.
CallsOf(trace) == SelectSeq(trace, LAMBDA e : e.ev = "call")

SleepsOf(trace) == SelectSeq(trace, LAMBDA e : e.ev = "sleep")

\* No call among the first MAX_RETRIES of the transport succeeds.
AllAttemptsFail(transport) == \A i \in 1..MAX_RETRIES : transport[i] # "ok"

\* The delays 2^0 .. 2^4 of the default five attempts, written out.
BackoffTable == << 1, 2, 4, 8, 16 >>

\* C6: make_request_with_retry calls the transport at most MAX_RETRIES
\* times, each call in turn; it returns exactly when one of those calls
\* succeeds, then the first such response and after no further call; when
\* all of them fail it raises after exactly MAX_RETRIES calls; and the
\* transport's exception reaches the caller only from the final attempt.
C6_RetryContract ==
    r_result # NotCalled =>
        LET calls == CallsOf(r_result.trace)
        IN  /\ Len(calls) <= MAX_RETRIES
            /\ \A k \in 1..Len(calls) :
                   calls[k].got = r_transport[k] /\ calls[k].attempt = k - 1
            /\ (r_result.outcome = "return") <=> ~AllAttemptsFail(r_transport)
            /\ r_result.outcome = "return" =>
                   /\ r_result.response = "ok"
                   /\ r_transport[Len(calls)] = "ok"
                   /\ \A k \in 1..(Len(calls) - 1) : r_transport[k] # "ok"
                   /\ r_result.trace[Len(r_result.trace)].ev = "call"
            /\ AllAttemptsFail(r_transport) =>
                   /\ r_result.outcome \in {"raise_transport", "raise_failed"}
                   /\ Len(calls) = MAX_RETRIES
            /\ (r_result.outcome = "raise_transport") <=>
                   /\ AllAttemptsFail(r_transport)
                   /\ r_transport[MAX_RETRIES] = "exception"

\* C6 witness: a call that raised the terminal error after a mix of
\* exceptions and non-success statuses.
C6_Witness ==
    /\ r_result.outcome = "raise_failed"
    /\ r_transport[1] = "exception"
    /\ r_transport[2] = "status"
    /\ Len(CallsOf(r_result.trace)) = MAX_RETRIES

\* C7: every sleep directly follows a failed call, and the sleep after failed
\* attempt k lasts 2^k seconds whatever the failure was; the sleeps of a call
\* are a prefix of 1, 2, 4, 8, 16; a transport that fails twice and then
\* succeeds gives the response after the sleeps 1 and 2.
C7_BackoffDelays ==
    r_result # NotCalled =>
        LET trace == r_result.trace
            sleeps == SleepsOf(trace)
        IN  /\ \A i \in 1..Len(trace) :
                   trace[i].ev = "sleep" =>
                       /\ i > 1
                       /\ trace[i - 1].ev = "call"
                       /\ trace[i - 1].got # "ok"
                       /\ trace[i - 1].attempt = trace[i].attempt
                       /\ trace[i].attempt + 1 \in DOMAIN BackoffTable
                       /\ trace[i].delay = BackoffTable[trace[i].attempt + 1]
            /\ Len(sleeps) <= Len(BackoffTable)
            /\ \A k \in 1..Len(sleeps) : sleeps[k].delay = BackoffTable[k]
            /\ (r_transport[1] # "ok" /\ r_transport[2] # "ok" /\ r_transport[3] = "ok")
                   => /\ r_result.outcome = "return"
                      /\ [k \in 1..Len(sleeps) |-> sleeps[k].delay] = << 1, 2 >>

\* C7 witness: the transport failed twice, in two ways, and then succeeded.
C7_Witness ==
    /\ r_transport[1] = "exception"
    /\ r_transport[2] = "status"
    /\ r_transport[3] = "ok"
    /\ r_result.outcome = "return"
    /\ Len(SleepsOf(r_result.trace)) = 2

\* The records the consumer's loop yields for a sequence of nodes.
RECURSIVE RunRecords(_, _, _)
RunRecords(nodes, ls, als) ==
    IF nodes = << >> \/ Head(nodes).isNull THEN << >>
    ELSE LET r == process_repo(Head(nodes), ls, als)
         IN  (IF r.raised THEN << >> ELSE << r.repo_info >>)
                 \o RunRecords(Tail(nodes), r.language_stats,
                               r.archived_language_stats)

NotFailsInside(n) == ~FailsInside(n)

\* C8: a node that fails inside process_repo yields no record, and the
\* records the consumer has produced are those of a run over the same nodes
\* without the failing ones; no node after a failing one is skipped: between
\* batches, the consumer has handled every node that left the data queue.
C8_FailureIsolated ==
    /\ emitted \o processed_repos
           = RunRecords(SelectSeq(c_seen, NotFailsInside), EmptyStats, EmptyStats)
    /\ \A i \in 1..Len(c_seen) :
           FailsInside(c_seen[i]) =>
               \A k \in 1..Len(emitted \o processed_repos) :
                   (emitted \o processed_repos)[k].name # c_seen[i].name
    /\ c_pc \in {"get", "signal", "done"} =>
           pushed = c_seen \o Flatten(data_queue)

\* C8 witness: in one batch a node failed inside process_repo and the node
\* after it was put on the result queue.
C8_Witness ==
    /\ Len(c_seen) = 2
    /\ CountOf(c_log, "get_batch") = 1
    /\ FailsInside(c_seen[1])
    /\ Len(emitted) = 1
    /\ emitted[1].name = c_seen[2].name

\* C9: the consumer puts at most one marker, as its last put, after it took
\* the producer's marker, and takes nothing from the data queue afterwards;
\* when process_data has returned it has put exactly one; and the
\* process_data loop ends only by taking the producer's marker, whatever the
\* nodes of a batch are.
C9_ConsumerEndsOnMarkerOnly ==
    /\ CountOf(c_log, "put_none") <= 1
    /\ CountOf(c_log, "get_none") <= 1
    /\ \A i \in 1..Len(c_log) :
           /\ c_log[i] = "put_none" =>
                  i = Len(c_log) /\ i > 1 /\ c_log[i - 1] = "get_none"
           /\ c_log[i] = "get_none" =>
                  \A j \in (i + 1)..Len(c_log) : c_log[j] = "put_none"
    /\ (c_pc = "done") <=> (CountOf(c_log, "put_none") = 1)
    /\ c_pc \notin {"unstarted", "get", "process"} =>
           CountOf(c_log, "get_none") = 1

\* The records of a partition whose languages list names the language.
RecordsWith(repos, archived, lang) ==
    {i \in 1..Len(repos) :
        /\ repos[i].is_archived = archived
        /\ \E k \in 1..Len(repos[i].languages) :
               repos[i].languages[k].name = lang}

\* C10: in a returned output, the repo_count of every language of either
\* partition is the number of records of that partition that list it.
C10_RepoCountMatchesRecords ==
    o_pc = "returned" =>
        /\ \A l \in DOMAIN output.language_statistics_unarchived :
               output.language_statistics_unarchived[l].repo_count
                   = Cardinality(RecordsWith(output.repositories, FALSE, l))
        /\ \A l \in DOMAIN output.language_statistics_archived :
               output.language_statistics_archived[l].repo_count
                   = Cardinality(RecordsWith(output.repositories, TRUE, l))

\* repo_count of a language in a statistics dictionary, 0 when absent.
RepoCountOf(stats, l) == IF l \in DOMAIN stats THEN stats[l].repo_count ELSE 0

\* The languages of the edges of a node.
EdgeNames(repo) == {repo.edges[k].name : k \in 1..Len(repo.edges)}

\* C11: processing one node writes language statistics in one partition
\* only, the one of the node's archived flag: an archived node leaves
\* language_stats as it was, an unarchived node leaves
\* archived_language_stats as it was, and every language of a node with a
\* positive totalSize is counted once more in the partition of its flag.
C11_OnePartitionPerNode ==
    [][c_seen' # c_seen =>
        LET repo == c_seen'[Len(c_seen')]
        IN  /\ repo.isNull =>
                  /\ language_stats' = language_stats
                  /\ archived_language_stats' = archived_language_stats
            /\ (~repo.isNull /\ repo.isArchived) =>
                  /\ language_stats' = language_stats
                  /\ repo.totalSize > 0 =>
                        \A l \in EdgeNames(repo) :
                            RepoCountOf(archived_language_stats', l)
                              = RepoCountOf(archived_language_stats, l) + 1
            /\ (~repo.isNull /\ ~repo.isArchived) =>
                  /\ archived_language_stats' = archived_language_stats
                  /\ repo.totalSize > 0 =>
                        \A l \in EdgeNames(repo) :
                            RepoCountOf(language_stats', l)
                              = RepoCountOf(language_stats, l) + 1]_vars

\* An archived node and an unarchived node, both with the language Go, have
\* been processed and each partition counts Go once.
C11_Witness ==
    /\ \E i \in 1..Len(c_seen) :
           c_seen[i].isArchived /\ c_seen[i].edges = ArchivedGoRepo.edges
    /\ \E i \in 1..Len(c_seen) :
           ~c_seen[i].isArchived /\ c_seen[i].edges = GoHclRepo.edges
    /\ RepoCountOf(archived_language_stats, "Go") = 1
    /\ RepoCountOf(language_stats, "Go") = 1

\* C12: parse_codeowners returns the display name of a team if and only if
\* "@{org}/{slug}" occurs in the content when both are compared without
\* regard to letter case, whatever the letter case of the organisation name,
\* of the slug and of the content; no match and a null content yield [].
C12_MentionedIffReturned ==
    (call_in.fn = "parse_codeowners" /\ call_out.done) =>
        LET org == call_in.org
            teams == call_in.org_teams
            content == call_in.content
            result == call_out.value
        IN  IF content = None THEN result = << >>
            ELSE /\ \A j \in 1..Len(teams) :
                      teams[j].name \in Range(result)
                        <=> Contains(lower(content),
                                     lower(Mention(org, teams[j].slug)))
                 /\ \A n \in Range(result) :
                      \E j \in 1..Len(teams) : teams[j].name = n

\* The place in the team list of the first team of that name.
FirstTeamNamed(teams, n) ==
    CHOOSE j \in 1..Len(teams) :
        /\ teams[j].name = n
        /\ \A k \in 1..(j - 1) : teams[k].name # n

\* C19: the list parse_codeowners returns never holds the same display name
\* twice, for any team list (one that repeats a slug or a whole entry
\* included) and any content, and the names come in the order in which
\* their teams first match.
C19_OwnersDeduplicated ==
    (call_in.fn = "parse_codeowners" /\ call_out.done) =>
        LET teams == call_in.org_teams
            result == call_out.value
        IN  \A i, j \in 1..Len(result) :
                i < j =>
                    /\ result[i] # result[j]
                    /\ FirstTeamNamed(teams, result[i])
                          < FirstTeamNamed(teams, result[j])

\* The numerators of the percentages of a languages list, added up.
RECURSIVE SumPercentages(_, _)
SumPercentages(languages, k) ==
    IF k > Len(languages) THEN 0
    ELSE languages[k].percentage.num + SumPercentages(languages, k + 1)

\* C13: for every node with at least one language edge and a positive
\* totalSize, whatever edge sizes and totalSize the response carries, the
\* percentages of the languages of its record add up to 100.
C13_PercentagesSumTo100 ==
    (call_in.fn = "process_repo" /\ call_out.done
       /\ call_in.repo.edges # << >> /\ call_in.repo.totalSize > 0) =>
        /\ ~call_out.value.raised
        /\ SumPercentages(call_out.value.repo_info.languages, 1)
             = 100 * call_in.repo.totalSize

\* The records of a list with an archived flag and a visibility.
RecordsOf(repos, archived, visibility) ==
    {i \in 1..Len(repos) :
        repos[i].is_archived = archived /\ repos[i].visibility = visibility}

\* The records of a list with an archived flag.
RecordsFlagged(repos, archived) ==
    {i \in 1..Len(repos) : repos[i].is_archived = archived}

\* C14: each of the six visibility counts of the output is the number of
\* records with that archived flag and that visibility; the total of
\* stats_unarchived is the number of unarchived records, the total of
\* stats_archived the number of archived ones, and the two totals add up to
\* the length of repositories.
C14_VisibilityCounts ==
    (call_in.fn = "statistics" /\ call_out.done) =>
        LET repos == call_in.all_repos
            out == call_out.value
            un == out.stats_unarchived
            ar == out.stats_archived
        IN  /\ un.private = Cardinality(RecordsOf(repos, FALSE, "PRIVATE"))
            /\ un.public = Cardinality(RecordsOf(repos, FALSE, "PUBLIC"))
            /\ un.internal = Cardinality(RecordsOf(repos, FALSE, "INTERNAL"))
            /\ ar.private = Cardinality(RecordsOf(repos, TRUE, "PRIVATE"))
            /\ ar.public = Cardinality(RecordsOf(repos, TRUE, "PUBLIC"))
            /\ ar.internal = Cardinality(RecordsOf(repos, TRUE, "INTERNAL"))
            /\ un.total = Cardinality(RecordsFlagged(repos, FALSE))
            /\ ar.total = Cardinality(RecordsFlagged(repos, TRUE))
            /\ un.total + ar.total = Len(out.repositories)

\* The output was built from an archived private record and an unarchived
\* public one.
C14_Witness ==
    /\ call_in.fn = "statistics"
    /\ call_out.done
    /\ Len(call_in.all_repos) = 2
    /\ call_out.value.stats_archived.private = 1
    /\ call_out.value.stats_unarchived.public = 1

\* Exactly days whole days lie between a commit and a reading of the clock.
WholeDaysAre(last_commit, now, days) ==
    /\ days * 24 <= now - last_commit.hour
    /\ now - last_commit.hour < (days + 1) * 24

\* At most days whole days lie between a commit and a reading of the clock.
WholeDaysAtMost(last_commit, now, days) ==
    now - last_commit.hour < (days + 1) * 24

\* The records with a last commit and an archived flag whose last commit is
\* at most days whole days old.
RecentRecords(repos, archived, days, now) ==
    {i \in 1..Len(repos) :
        /\ ~repos[i].last_commit.isNone
        /\ repos[i].is_archived = archived
        /\ WholeDaysAtMost(repos[i].last_commit, now, days)}

\* The statistics block of the output for an archived flag.
StatsBlock(out, archived) ==
    IF archived THEN out.stats_archived ELSE out.stats_unarchived

\* C15: in each block, active_last_month, active_last_3months and
\* active_last_6months are the numbers of records with a last commit and the
\* block's archived flag whose elapsed whole days are at most 30, 90 and
\* 180; month <= 3months <= 6months <= total; a record with a last commit 10
\* days old is counted in all three windows, one 200 days old or without a
\* last commit in none.
C15_ActivityWindows ==
    (call_in.fn = "statistics" /\ call_out.done) =>
        LET repos == call_in.all_repos
            now == call_in.now
        IN  \A archived \in BOOLEAN :
              LET b == StatsBlock(call_out.value, archived)
                  mine == RecordsFlagged(repos, archived)
              IN  /\ b.active_last_month
                       = Cardinality(RecentRecords(repos, archived, 30, now))
                  /\ b.active_last_3months
                       = Cardinality(RecentRecords(repos, archived, 90, now))
                  /\ b.active_last_6months
                       = Cardinality(RecentRecords(repos, archived, 180, now))
                  /\ b.active_last_month <= b.active_last_3months
                  /\ b.active_last_3months <= b.active_last_6months
                  /\ b.active_last_6months <= b.total
                  /\ (\A i \in mine :
                         /\ ~repos[i].last_commit.isNone
                         /\ WholeDaysAre(repos[i].last_commit, now, 10))
                       => /\ b.active_last_month = Cardinality(mine)
                          /\ b.active_last_3months = Cardinality(mine)
                          /\ b.active_last_6months = Cardinality(mine)
                  /\ (\A i \in mine :
                         \/ repos[i].last_commit.isNone
                         \/ WholeDaysAre(repos[i].last_commit, now, 200))
                       => /\ b.active_last_month = 0
                          /\ b.active_last_3months = 0
                          /\ b.active_last_6months = 0

\* The output was built from two unarchived records, one committed to 30
\* whole days before and one 90 whole days before, and counts the first in
\* the three windows and the second in two.
C15_Witness ==
    /\ call_in.fn = "statistics"
    /\ call_out.done
    /\ Len(call_in.all_repos) = 2
    /\ ~call_in.all_repos[1].last_commit.isNone
    /\ ~call_in.all_repos[2].last_commit.isNone
    /\ WholeDaysAre(call_in.all_repos[1].last_commit, call_in.now, 30)
    /\ WholeDaysAre(call_in.all_repos[2].last_commit, call_in.now, 90)
    /\ call_out.value.stats_unarchived.active_last_month = 1
    /\ call_out.value.stats_unarchived.active_last_3months = 2
    /\ call_out.value.stats_unarchived.active_last_6months = 2

\* C16: fetch_org_teams is called once, when the consumer is constructed
\* and before either worker thread is started; if the fetch fails (retries
\* exhausted, error array, malformed response) the team list is empty and
\* the run goes on to its output like any other run; once the consumer is
\* constructed the team list never changes.
C16_TeamsFetchedOnceAtConstruction ==
    /\ Len(teams_log) <= 1
    /\ teams_log = << >> <=> o_pc = "start"
    /\ (p_pc # "unstarted" \/ c_pc # "unstarted") => Len(teams_log) = 1
    /\ teams_log # << >> =>
          /\ org_teams = teams_log[1].teams
          /\ teams_log[1].failed =>
                /\ org_teams = << >>
                /\ c_pc # "crashed" => (o_pc = "returned" \/ ENABLED Next)

\* The fetch of the teams failed and the run has returned an output with a
\* record in it.
C16_Witness ==
    /\ teams_log # << >>
    /\ teams_log[1].failed
    /\ o_pc = "returned"
    /\ output.repositories # << >>
    /\ org_teams = << >>

\* C17: a backoff wait occurs only before a retry: every sleep of a call is
\* followed by another attempt, so a call that ends in the terminal error
\* after MAX_RETRIES attempts has slept exactly MAX_RETRIES - 1 times,
\* whether its last failure was an exception or a non-success status.
C17_WaitOnlyBeforeRetry ==
    r_result # NotCalled =>
        LET trace == r_result.trace
        IN  /\ \A i \in 1..Len(trace) :
                   trace[i].ev = "sleep" =>
                       i < Len(trace) /\ trace[i + 1].ev = "call"
            /\ r_result.outcome \in {"raise_transport", "raise_failed"} =>
                   Len(SleepsOf(trace)) = MAX_RETRIES - 1

\* The fetch of path k returned a content that is not null.
HasContent(responses, k) == responses[k] \in {"empty", "text"}

\* C18: fetch_codeowners asks for the paths in the order CODEOWNERS,
\* .github/CODEOWNERS, docs/CODEOWNERS, .gitlab/CODEOWNERS; it returns the
\* content of the first path whose fetch returns a content that is not
\* null, whatever the content (empty text included), and asks for no later
\* path; it returns null only when no path returned content.
C18_FirstCodeownersWins ==
    (call_in.fn = "fetch_codeowners" /\ call_out.done) =>
        LET responses == call_in.responses
            r == call_out.value
            hits == {k \in 1..Len(paths) : HasContent(responses, k)}
        IN  /\ Len(r.requests) <= Len(paths)
            /\ \A i \in 1..Len(r.requests) : r.requests[i] = paths[i]
            /\ hits = {} => r.content = None /\ Len(r.requests) = Len(paths)
            /\ hits # {} =>
                  LET first == CHOOSE k \in hits : \A j \in hits : k <= j
                  IN  /\ r.content = ContentOf(responses[first], first)
                      /\ Len(r.requests) = first

\* The keyword occurs in the text, compared without regard to letter case.
Mentions(content, keyword) == Contains(lower(content), lower(keyword))

\* The list holds the keywords of keyword_list that the text mentions, each
\* at most once, and nothing else.
RecordsMentioned(list, keyword_list, content) ==
    /\ \A i \in 1..Len(keyword_list) :
           keyword_list[i] \in Range(list) <=> Mentions(content, keyword_list[i])
    /\ \A x \in Range(list) : x \in Range(keyword_list)
    /\ \A i, j \in 1..Len(list) : i # j => list[i] # list[j]

\* C20: for a repository with a README, every keyword of the documentation
\* list is in docs, and every keyword of the cloud-provider list is in
\* cloud, if and only if it occurs in the README content compared without
\* regard to letter case, and each at most once.
C20_ReadmeKeywords ==
    (call_in.fn = "process_repo" /\ call_out.done
       /\ call_in.repo.readme # None) =>
        /\ ~call_out.value.raised
        /\ RecordsMentioned(call_out.value.repo_info.docs, documentation_list,
                            call_in.repo.readme)
        /\ RecordsMentioned(call_out.value.repo_info.cloud,
                            cloud_services_list, call_in.repo.readme)

\* The page requests that were answered with a page.
PagesGot == SelectSeq(p_requests, LAMBDA q : q.kind = "ok")

\* The batches on the data queue.
BatchesQueued == SelectSeq(data_queue, LAMBDA item : item.kind = "batch")

\* C21: when a page response carries an error array the producer does not
\* ask for that page again, pushes none of its nodes, issues no further
\* request and goes to the end-of-stream marker without an exception leaving
\* fetch_data; the batches pushed before stay on the queue until the
\* consumer takes them, and a consumer that ends has handled all of them.
C21_ErrorArrayEndsPagination ==
    \A i \in 1..Len(p_requests) :
        p_requests[i].kind = "errors" =>
            /\ i = Len(p_requests)
            /\ p_pc \in {"signal", "done"}
            /\ p_repos = << >>
            /\ CountOf(p_puts, "batch") = i - 1
            /\ Len(pushed) = repos_fetched
            /\ Len(BatchesQueued) + CountOf(c_log, "get_batch") = i - 1
            /\ p_pc = "done" => p_puts[Len(p_puts)] = "none"
            /\ c_pc = "done" => c_seen = pushed

\* The second page request got an error array after a first page with a
\* node; the run has returned with the record of that node.
C21_Witness ==
    /\ Len(p_requests) = 2
    /\ p_requests[2].kind = "errors"
    /\ Len(pushed) = 1
    /\ c_pc = "done"
    /\ o_pc = "returned"
    /\ Len(output.repositories) = 1

\* The page info the producer holds after n batches were put.
InfoAfter(n) ==
    IF n = 0 THEN [hasNextPage |-> TRUE, endCursor |-> 0]
    ELSE [hasNextPage |-> PagesGot[n].hasNextPage,
          endCursor |-> PagesGot[n].endCursor]

\* C22: the first page request carries a null cursor and every later one the
\* end cursor of the page got just before it; cursor and has_next_page are
\* taken over from a page only when its batch has been put on the data
\* queue; each page is requested and pushed at most once; and no request
\* follows a response with hasNextPage false.
C22_CursorFollowsPages ==
    LET n == Len(p_requests)
        put == CountOf(p_puts, "batch")
    IN  /\ n >= 1 => p_requests[1].cursor = 0
        /\ \A i \in 1..(n - 1) :
               /\ p_requests[i].kind = "ok"
               /\ p_requests[i].hasNextPage
               /\ p_requests[i + 1].cursor = p_requests[i].endCursor
        /\ \A i, j \in 1..n : i # j => p_requests[i].cursor # p_requests[j].cursor
        /\ Len(PagesGot) = IF p_pc = "put" THEN put + 1 ELSE put
        /\ cursor = InfoAfter(put).endCursor
        /\ has_next_page = InfoAfter(put).hasNextPage

\* Two pages were requested and pushed, the second with the end cursor of
\* the first, and the second was the last.
C22_Witness ==
    /\ Len(p_requests) = 2
    /\ p_requests[1].cursor = 0
    /\ p_requests[2].cursor = p_requests[1].endCursor
    /\ p_requests[2].kind = "ok"
    /\ CountOf(p_puts, "batch") = 2
    /\ ~has_next_page
    /\ cursor = p_requests[2].endCursor

\* The two statistics dictionaries after process_repo has handled the nodes
\* from k on, one after the other; a node that is no object writes nothing.
RECURSIVE StatsAfter(_, _, _, _)
StatsAfter(nodes, k, ls, als) ==
    IF k > Len(nodes) THEN [language_stats |-> ls, archived_language_stats |-> als]
    ELSE IF nodes[k].isNull THEN StatsAfter(nodes, k + 1, ls, als)
    ELSE LET r == process_repo(nodes[k], ls, als)
         IN  StatsAfter(nodes, k + 1, r.language_stats,
                        r.archived_language_stats)

\* C23: the two language statistics dictionaries are written by the
\* consumer thread only (they are what process_repo made of the nodes the
\* consumer has handled), and the orchestrator reads them only after the
\* consumer thread has ended: when the orchestrator is at the statistics or
\* past them the thread is not alive, no step of it is possible, and a
\* returned output holds the averages of the dictionaries as they are.
C23_StatsReadAfterConsumerEnds ==
    /\ language_stats
         = StatsAfter(c_seen, 1, EmptyStats, EmptyStats).language_stats
    /\ archived_language_stats
         = StatsAfter(c_seen, 1, EmptyStats, EmptyStats).archived_language_stats
    /\ o_pc \in {"aggregate", "returned"} =>
          /\ ~c_alive
          /\ c_pc \in {"done", "crashed"}
          /\ ~ENABLED ConsumerStep
    /\ o_pc = "returned" =>
          /\ output.language_statistics_unarchived
               = LanguageAverages(language_stats)
          /\ output.language_statistics_archived
               = LanguageAverages(archived_language_stats)

\* The orchestrator is about to compute the statistics, the consumer thread
\* has ended, and both dictionaries have been written.
C23_Witness ==
    /\ o_pc = "aggregate"
    /\ ~c_alive
    /\ c_pc = "done"
    /\ language_stats # EmptyStats
    /\ archived_language_stats # EmptyStats

\* The node was folded into the partition of the flag with the language l:
\* it is an object with that archived flag, a positive totalSize and an edge
\* of that language.
FoldedWith(node, archived, l) ==
    /\ ~node.isNull
    /\ node.isArchived = archived
    /\ node.totalSize > 0
    /\ l \in EdgeNames(node)

\* The size of the edge of a language in a node.
EdgeSize(node, l) ==
    node.edges[CHOOSE k \in 1..Len(node.edges) : node.edges[k].name = l].size

\* Over the nodes from k on that were folded with l: their number, the sum
\* of the sizes of l, and the sum of the percentages of l.
RECURSIVE FoldedSums(_, _, _, _)
FoldedSums(nodes, k, archived, l) ==
    IF k > Len(nodes)
    THEN [count |-> 0, size |-> 0, percentage |-> Fraction(0, 1)]
    ELSE LET rest == FoldedSums(nodes, k + 1, archived, l)
         IN  IF FoldedWith(nodes[k], archived, l)
             THEN [count |-> rest.count + 1,
                   size |-> rest.size + EdgeSize(nodes[k], l),
                   percentage |->
                       AddFraction(rest.percentage,
                                   Fraction(EdgeSize(nodes[k], l) * 100,
                                            nodes[k].totalSize))]
             ELSE rest

\* The language statistics of the output for an archived flag.
LanguageBlock(out, archived) ==
    IF archived THEN out.language_statistics_archived
    ELSE out.language_statistics_unarchived

\* q thousandths is the quotient of the number x by n, rounded to the
\* nearest thousandth.
IsRounded3(q, x, n) ==
    /\ 2 * (x.num * 1000 - q * x.den * n) <= x.den * n
    /\ 2 * (q * x.den * n - x.num * 1000) <= x.den * n

\* C24: for every language of either partition of the output, total_size is
\* the sum of the language's sizes over the nodes folded into the partition,
\* repo_count is the number of those nodes and at least 1, so that the
\* division is defined, and average_percentage is the sum of the language's
\* percentages divided by repo_count and rounded to 3 decimals; a language
\* that is 800 of the 1000 bytes of the only node with it gets 80.0.
C24_LanguageAverages ==
    o_pc = "returned" =>
        \A archived \in BOOLEAN :
            LET block == LanguageBlock(output, archived)
            IN  /\ \A i \in 1..Len(c_seen) :
                       \A l \in {"Go", "HCL", "Python"} :
                           FoldedWith(c_seen[i], archived, l) =>
                               l \in DOMAIN block
                /\ \A l \in DOMAIN block :
                       LET sums == FoldedSums(c_seen, 1, archived, l)
                       IN  /\ block[l].repo_count >= 1
                           /\ block[l].repo_count = sums.count
                           /\ block[l].total_size = sums.size
                           /\ IsRounded3(block[l].average_percentage,
                                         sums.percentage, sums.count)
                           /\ (sums.count = 1 /\ sums.size = 800
                                 /\ sums.percentage = Fraction(80, 1))
                                => block[l].average_percentage = 80000

\* The output was built after an unarchived node with Go as 800 of its 1000
\* bytes and an archived node with Go as 2 of its 3 bytes: Go has the
\* averages 80.0 and 66.667.
C24_Witness ==
    /\ o_pc = "returned"
    /\ "Go" \in DOMAIN output.language_statistics_unarchived
    /\ "Go" \in DOMAIN output.language_statistics_archived
    /\ output.language_statistics_unarchived["Go"].repo_count = 1
    /\ output.language_statistics_unarchived["Go"].total_size = 800
    /\ output.language_statistics_unarchived["Go"].average_percentage = 80000
    /\ output.language_statistics_archived["Go"].average_percentage = 66667

\* The paths before path k that a call of fetch_codeowners failed on: the
\* request raised, or the body had an error array.
FailedPaths(responses) ==
    {k \in 1..Len(paths) : responses[k] \in {"raised", "errors"}}

\* No path of the call yields a text that is not empty.
NoPathYields(responses) ==
    \A k \in 1..Len(paths) : ~Truthy(ContentOf(responses[k], k))

\* C25: a failed request for one ownership file path (it raised, or its
\* body had an error array) neither drops the repository nor ends the
\* probing: when no earlier path yielded content the next path is asked for
\* and a content found there names the owning teams, and when no path
\* yields content the record is emitted with an empty list of teams.
C25_FailedPathSkipped ==
    call_out.done =>
        LET responses == call_in.repo.codeowners
            fetched == fetch_codeowners(responses)
            r == call_out.value
        IN  /\ ~r.raised
            /\ r.repo_info.name = call_in.repo.name
            /\ \A k \in FailedPaths(responses) :
                   (\A j \in 1..(k - 1) :
                       ~Truthy(ContentOf(responses[j], j)))
                   => /\ k < Len(paths) => /\ Len(fetched.requests) > k
                                          /\ fetched.requests[k + 1]
                                                 = paths[k + 1]
                      /\ \A m \in (k + 1)..Len(paths) :
                            (/\ Truthy(ContentOf(responses[m], m))
                             /\ \A j \in (k + 1)..(m - 1) :
                                   ~Truthy(ContentOf(responses[j], j)))
                            => /\ fetched.content = TextAt(m)
                               /\ r.repo_info.users = << "Team A" >>
            /\ NoPathYields(responses) => r.repo_info.users = << >>

C25_Witness ==
    /\ call_out.done
    /\ call_in.repo.codeowners = << "raised", "errors", "raised", "errors" >>
    /\ Len(fetch_codeowners(call_in.repo.codeowners).requests) = Len(paths)
    /\ ~call_out.value.raised
    /\ call_out.value.repo_info.users = << >>

\* The records of a list of nodes, in the order of the nodes, without the
\* nodes that yield none.
RECURSIVE RecordsInOrder(_)
RecordsInOrder(nodes) ==
    IF nodes = << >> THEN << >>
    ELSE (IF Dropped(Head(nodes)) THEN << >>
          ELSE << process_repo(Head(nodes), EmptyStats,
                               EmptyStats).repo_info >>)
         \o RecordsInOrder(Tail(nodes))

\* C26: the records of a returned output are those of the pushed nodes in
\* the order they were pushed, without the dropped nodes; whenever the
\* consumer is not at work on a batch it has put one result batch for every
\* data batch it took, each before it took the next, with the records in
\* the order of the nodes; and the orchestrator collects the records in the
\* order they were put.
C26_FetchOrder ==
    /\ c_pc # "process" =>
           CountOf(c_log, "put_batch") = CountOf(c_log, "get_batch")
    /\ \A i \in 1..(Len(c_log) - 1) :
           c_log[i] = "get_batch" => c_log[i + 1] = "put_batch"
    /\ emitted \o processed_repos = RecordsInOrder(c_seen)
    /\ all_repos \o Flatten(result_queue) = emitted
    /\ o_pc = "returned" => output.repositories = RecordsInOrder(pushed)

\* keyword occurs in text, letter case aside.
OccursIn(keyword, text) ==
    /\ text # None
    /\ \E i \in 0..(Len(text) - Len(keyword)) :
           \A j \in 1..Len(keyword) :
               LowerChar(text[i + j]) = LowerChar(keyword[j])

\* C27: the frameworks list of an emitted record holds a keyword of
\* frameworks_list if and only if the keyword occurs, letter case aside, in
\* the text of the root pyproject.toml or of the root package.json; it holds
\* nothing else and no keyword twice; a missing manifest adds nothing.
C27_FrameworksFromManifests ==
    (call_in.fn = "process_repo" /\ call_out.done /\ ~call_out.value.raised)
    => LET frameworks == call_out.value.repo_info.frameworks
           repo == call_in.repo
       IN  /\ DOMAIN frameworks \subseteq Range(frameworks_list)
           /\ \A keyword \in Range(frameworks_list) :
                  keyword \in DOMAIN frameworks
                  <=> \/ OccursIn(keyword, repo.pyproject)
                      \/ OccursIn(keyword, repo.package_json)
           /\ \A keyword \in DOMAIN frameworks : frameworks[keyword] = 1

\* C27 witness: both manifests name Django, in different letter cases, and
\* the record lists it once, with Flask, which only one of them names.
C27_Witness ==
    /\ call_out.done
    /\ call_in.repo.pyproject = << "D", "j", "a", "n", "g", "o", " ", "f", "l", "a", "s", "k" >>
    /\ call_in.repo.package_json = << "D", "J", "A", "N", "G", "O" >>
    /\ DOMAIN call_out.value.repo_info.frameworks
           = {<< "D", "j", "a", "n", "g", "o" >>,
              << "F", "l", "a", "s", "k" >>}
    /\ call_out.value.repo_info.frameworks[<< "D", "j", "a", "n", "g", "o" >>] = 1

====
